---- MODULE Spec2Model ----
(***************************************************************************)
(* Order lifecycle, balances and role gates of the cafe delivery bot.      *)
(*                                                                         *)
(* The store is the SQLite file of bot/database.py: the users table and    *)
(* the orders table.  Every database function opens its own connection and *)
(* commits on exit, so one database call is one atomic transaction.        *)
(*                                                                         *)
(* The Telegram bot is one aiogram dispatcher: a handler runs without       *)
(* interruption between two awaits, and no handler awaits between its       *)
(* database calls, so under Spec a bot handler is one step.                 *)
(*                                                                         *)
(* A callback query can only come from an inline button the bot has sent   *)
(* to that chat, and a sent button stays clickable.  The listing and       *)
(* viewing handlers change no row: they only send keyboards, and a chat    *)
(* can call them in any state.  kb holds, in each state, every button that *)
(* some sequence of listing and viewing calls made so far can have put in  *)
(* a chat: each step ends by adding the buttons those handlers send in the *)
(* new state (Sent).  The clicks kb allows are exactly those a run of the  *)
(* bot allows, stale buttons included.  Spec and SpecStaff start with no   *)
(* button sent.  Callback data is chosen by the client, and a handler      *)
(* reads nothing but the data and the sender: SpecOpen starts with every   *)
(* callback query already available to every chat (InitOpen).              *)
(*                                                                         *)
(* The storefront API (webapp/api.py) is a separate front-end on the same  *)
(* file.  Under Spec a request is one step; under SpecApi requests are      *)
(* served by concurrent workers and interleave between database calls.     *)
(***************************************************************************)
EXTENDS Integers, Sequences, FiniteSets, TLC

VARIABLES
    users,      \* users table: telegram_id -> row, defined on the registered ids
    orders,     \* orders table: order id (1..Len) -> row
    kb,         \* inline buttons sent so far: <<chat, callback prefix, order id, argument>>
    fsm,        \* aiogram FSM state of each chat
    req,        \* API worker -> the create_new_order request it is serving
    menu        \* menu_items table: the rows by id, and the largest id ever used

vars == <<users, orders, kb, fsm, req, menu>>

----------------------------------------------------------------------------
(* Bounds and input sets *)

MaxOrders == 2

\* deliveries are explored while every cashback balance stays within this
MaxCashback == 60

DIRECTOR_ID == "director"

Ids == {DIRECTOR_ID, "kim", "lee", "uma"}

\* ids the director types into the add-admin / add-courier dialogs
AdminIds == {}
CourierIds == {"kim"}
\* ids that use the storefront and the customer side of the bot
CustomerIds == {"uma"}

Workers == {"w1", "w2"}

\* carts a client posts: the prices are taken from the request body
Carts ==
    { <<[price |-> 200, quantity |-> 2]>>,
      <<[price |-> 480, quantity |-> 1], [price |-> 520, quantity |-> 1]>>,
      <<[price |-> -100, quantity |-> 1]>> }

UseBonus == {0, 500, 600}

Addresses == {"addr"}

\* the staffing scenarios: orders placed, the ids hired, the cart posted
MaxStaffOrders == 1
MaxOpenOrders == 1
StaffCourierIds == {"kim", "lee"}
OpenAdminIds == {"lee"}
OpenCourierIds == {"kim"}
PlainCarts == { <<[price |-> 9, quantity |-> 2]>> }

\* the menu scenario: ids menu_items may use, orders placed, what staff type
MaxMenuItems == 2
MaxMenuOrders == 1
MenuAdminIds == {"lee"}
MenuTexts == {"{items: [{id: 1, category_id: 4, name: Pasta, price: 520}]}",
              "{items: [{id: 2, category_id: 5, name: Latte, price: 220}]}",
              "{items: [{name: Latte}]}", "not json"}
PriceTexts == {"180", "free"}

\* the delivery scenario: one order that earns cashback, with or without a bonus
MaxNotifyOrders == 1
NotifyCarts ==
    { <<[price |-> 200, quantity |-> 2]>>,
      <<[price |-> 480, quantity |-> 1], [price |-> 520, quantity |-> 1]>> }
NotifyBonus == {0, 500}

\* the order table under direct calls of the database functions
MaxDbOrders == 2
StatusArgs == {"pending", "confirmed", "cooking", "ready", "delivering", "delivered",
               "cancelled", "archived"}
PaymentArgs == {"pending", "paid", "failed", "refunded", "charged"}

----------------------------------------------------------------------------
(* Values of the schema *)

Roles == {"director", "admin", "courier", "user"}

Statuses == {"pending", "confirmed", "cooking", "ready", "delivering", "delivered", "cancelled"}

NULL == "NULL"

WELCOME_BONUS == 500

MIN_BONUS_ORDER == 500

----------------------------------------------------------------------------
(* Pure helpers *)

Min(a, b) == IF a <= b THEN a ELSE b

Min3(a, b, c) == Min(a, Min(b, c))

\* sum(item.price * item.quantity for item in order.items)
RECURSIVE SumItems(_)
SumItems(items) ==
    IF items = <<>> THEN 0
    ELSE Head(items).price * Head(items).quantity + SumItems(Tail(items))

\* a cashback of a tenth of the price
CashbackTenth(total_price) == total_price \div 10

\* int(total_price * 0.05): the product truncated towards zero
CashbackOf(total_price) ==
    IF total_price >= 0 THEN (total_price * 5) \div 100
    ELSE -(((-total_price) * 5) \div 100)

\* a cap that leaves the balance out
MaxBonusRequested(total, balance_bonus, use_bonus) == Min(total \div 2, use_bonus)

\* min(total // 2, user.get("balance_bonus", 0), order.use_bonus)
MaxBonus(total, balance_bonus, use_bonus) ==
    Min3(total \div 2, balance_bonus, use_bonus)

\* a guard that lets a bonus be redeemed on any order total
BonusAllowedAnyTotal(total) == TRUE

\* the guard of the HTTP 400 in create_new_order: total < 500 is refused
BonusAllowed(total) == ~(total < MIN_BONUS_ORDER)

----------------------------------------------------------------------------
(* database.py *)

\* get_user(id) is not None
registered(tbl, id) == id \in DOMAIN tbl

UserRow(role, bonus) ==
    [role |-> role, balance_bonus |-> bonus, balance_cashback |-> 0, address |-> NULL]

\* INSERT OR REPLACE: a second call starts the row afresh
create_user_replacing(tbl, id, welcome_bonus) ==
    [x \in DOMAIN tbl \cup {id} |->
        IF x = id THEN UserRow("user", welcome_bonus) ELSE tbl[x]]

\* an insert whose role column defaults to director
create_user_as_director(tbl, id, welcome_bonus) ==
    IF id \in DOMAIN tbl THEN tbl
    ELSE [x \in DOMAIN tbl \cup {id} |->
            IF x = id THEN UserRow("director", welcome_bonus) ELSE tbl[x]]

\* INSERT ... ON CONFLICT(telegram_id) DO UPDATE SET username, first_name, last_name
\* (the profile columns are not among the columns of UserRow)
create_user(tbl, id, welcome_bonus) ==
    IF id \in DOMAIN tbl THEN tbl
    ELSE [x \in DOMAIN tbl \cup {id} |->
            IF x = id THEN UserRow("user", welcome_bonus) ELSE tbl[x]]

\* UPDATE users SET address = ? WHERE telegram_id = ?
update_user_address(tbl, id, address) ==
    IF id \in DOMAIN tbl THEN [tbl EXCEPT ![id].address = address] ELSE tbl

\* a role update that does not protect the director
update_user_role_unguarded(tbl, id, role) ==
    IF role \notin Roles THEN tbl
    ELSE IF id \in DOMAIN tbl THEN [tbl EXCEPT ![id].role = role] ELSE tbl

\* UPDATE users SET role = ? WHERE telegram_id = ?, refused for the director
update_user_role(tbl, id, role) ==
    IF role \notin Roles THEN tbl
    ELSE IF id = DIRECTOR_ID /\ role # "director" THEN tbl
    ELSE IF id \in DOMAIN tbl THEN [tbl EXCEPT ![id].role = role] ELSE tbl

get_users_by_role(tbl, role) == {id \in DOMAIN tbl : tbl[id].role = role}

\* the check of use_user_bonus, made on its own read of the row
use_user_bonus_ok(tbl, id, amount) ==
    id \in DOMAIN tbl /\ ~(tbl[id].balance_bonus < amount)

\* UPDATE users SET balance_bonus = balance_bonus - ? WHERE telegram_id = ?
debit_bonus(tbl, id, amount) ==
    IF id \in DOMAIN tbl
    THEN [tbl EXCEPT ![id].balance_bonus = tbl[id].balance_bonus - amount]
    ELSE tbl

\* use_user_bonus as one call: the check, then the update
use_user_bonus(tbl, id, amount) ==
    IF use_user_bonus_ok(tbl, id, amount) THEN debit_bonus(tbl, id, amount) ELSE tbl

\* UPDATE users SET balance_cashback = ?: the amount written over the balance
set_user_cashback(tbl, id, amount) ==
    IF id \in DOMAIN tbl THEN [tbl EXCEPT ![id].balance_cashback = amount] ELSE tbl

\* UPDATE users SET balance_cashback = balance_cashback + ? WHERE telegram_id = ?
add_user_cashback(tbl, id, amount) ==
    IF id \in DOMAIN tbl
    THEN [tbl EXCEPT ![id].balance_cashback = tbl[id].balance_cashback + amount]
    ELSE tbl

\* INSERT INTO orders (...): status, courier_id, cashback_used, payment_status by default
create_order(tbl, user_id, items, total_price, delivery_address, bonus_used) ==
    Append(tbl, [user_id |-> user_id, items |-> items, total_price |-> total_price,
                 delivery_address |-> delivery_address, bonus_used |-> bonus_used,
                 cashback_used |-> 0, status |-> "pending", courier_id |-> NULL,
                 payment_status |-> "pending"])

OrderIds == 1..Len(orders)

\* a status update that hands the redeemed bonus back by clearing it on the order
update_order_status_clearing_bonus(tbl, o, status) ==
    IF status \notin Statuses THEN tbl
    ELSE IF o \in 1..Len(tbl)
    THEN [tbl EXCEPT ![o].status = status,
                     ![o].bonus_used = IF status = "cancelled" THEN 0 ELSE tbl[o].bonus_used]
    ELSE tbl

\* UPDATE orders SET status = ? WHERE id = ?
update_order_status(tbl, o, status) ==
    IF status \notin Statuses THEN tbl
    ELSE IF o \in 1..Len(tbl) THEN [tbl EXCEPT ![o].status = status] ELSE tbl

\* an assignment that writes the courier and leaves the status to a later write
assign_courier_only(tbl, o, courier_id) ==
    IF o \in 1..Len(tbl) THEN [tbl EXCEPT ![o].courier_id = courier_id] ELSE tbl

\* UPDATE orders SET courier_id = ?, status = 'ready' WHERE id = ?
assign_courier(tbl, o, courier_id) ==
    IF o \in 1..Len(tbl)
    THEN [tbl EXCEPT ![o].courier_id = courier_id, ![o].status = "ready"]
    ELSE tbl

\* valid_statuses of update_payment_status
PaymentStatuses == {"pending", "paid", "failed", "refunded"}

\* a payment update that also confirms the order it marks paid
update_payment_status_confirming(tbl, o, status) ==
    IF status \notin PaymentStatuses THEN tbl
    ELSE IF o \in 1..Len(tbl)
    THEN [tbl EXCEPT ![o].payment_status = status,
                     ![o].status = IF status = "paid" THEN "confirmed" ELSE tbl[o].status]
    ELSE tbl

\* UPDATE orders SET payment_status = ? WHERE id = ?
update_payment_status(tbl, o, status) ==
    IF status \notin PaymentStatuses THEN tbl
    ELSE IF o \in 1..Len(tbl) THEN [tbl EXCEPT ![o].payment_status = status] ELSE tbl

\* the ids of the first n rows of a listing ordered by creation
FirstN(S, n) == {o \in S : Cardinality({p \in S : p < o}) < n}

\* the ids of the last n rows of a listing ordered by creation
LastN(S, n) == {o \in S : Cardinality({p \in S : p > o}) < n}

\* WHERE o.status IN ('pending', 'confirmed', 'cooking', 'ready')
get_pending_orders(tbl) ==
    {o \in 1..Len(tbl) : tbl[o].status \in {"pending", "confirmed", "cooking", "ready"}}

\* WHERE o.courier_id = ? AND o.status IN ('ready', 'delivering')
get_courier_orders(tbl, c) ==
    {o \in 1..Len(tbl) : tbl[o].courier_id = c /\ tbl[o].status \in {"ready", "delivering"}}

\* WHERE user_id = ? ORDER BY created_at DESC LIMIT 10
get_user_orders(tbl, u) == LastN({o \in 1..Len(tbl) : tbl[o].user_id = u}, 10)

\* menu_items: id INTEGER PRIMARY KEY AUTOINCREMENT, price, is_available DEFAULT 1
MenuRow(price, is_available) == [price |-> price, is_available |-> is_available]

\* init_db: the sample items inserted into an empty menu_items (the first of them)
InitMenu == [seq |-> 1, rows |-> [i \in {1} |-> MenuRow(350, 1)]]

\* INSERT OR REPLACE of one row under a given id
put_menu_row(m, id, row) ==
    [seq |-> IF id > m.seq THEN id ELSE m.seq,
     rows |-> [i \in DOMAIN m.rows \cup {id} |-> IF i = id THEN row ELSE m.rows[i]]]

\* WHERE m.is_available = 1
get_menu_items(m) == {i \in DOMAIN m.rows : m.rows[i].is_available = 1}

\* INSERT INTO menu_items (...): the id is one more than the largest ever used
add_menu_item(m, price) == put_menu_row(m, m.seq + 1, MenuRow(price, 1))

\* UPDATE menu_items SET is_available = ? WHERE id = ?
update_menu_item(m, item_id, is_available) ==
    IF item_id \in DOMAIN m.rows
    THEN [m EXCEPT !.rows[item_id].is_available = is_available] ELSE m

\* DELETE FROM menu_items WHERE id = ?
delete_menu_item(m, item_id) ==
    [m EXCEPT !.rows = [i \in DOMAIN m.rows \ {item_id} |-> m.rows[i]]]

\* json.loads and the keys import_menu_json reads: a failure raises inside the try
json_loads(json_str) ==
    CASE json_str = "{items: [{id: 1, category_id: 4, name: Pasta, price: 520}]}" ->
            [ok |-> TRUE, items |-> <<[id |-> 1, price |-> 520]>>]
      [] json_str = "{items: [{id: 2, category_id: 5, name: Latte, price: 220}]}" ->
            [ok |-> TRUE, items |-> <<[id |-> 2, price |-> 220]>>]
      [] OTHER -> [ok |-> FALSE, items |-> <<>>]

\* for item in data["items"]: INSERT OR REPLACE INTO menu_items (...)
RECURSIVE replace_items(_, _)
replace_items(m, items) ==
    IF items = <<>> THEN m
    ELSE replace_items(put_menu_row(m, Head(items).id, MenuRow(Head(items).price, 1)),
                       Tail(items))

import_menu_json(m, json_str) ==
    IF json_loads(json_str).ok THEN replace_items(m, json_loads(json_str).items) ELSE m

----------------------------------------------------------------------------
(* keyboards/__init__.py: the callback buttons a keyboard holds *)

Btn(chat, prefix, o, arg) == <<chat, prefix, o, arg>>

\* status_actions of get_order_manage_keyboard
status_actions(status) ==
    CASE status = "pending" -> {"confirmed", "cancelled"}
      [] status = "confirmed" -> {"cooking", "cancelled"}
      [] status = "cooking" -> {"ready"}
      [] status = "delivering" -> {"delivered"}
      [] OTHER -> {}

get_order_manage_keyboard(chat, o, status, couriers) ==
    {Btn(chat, "admin:order_status", o, s) : s \in status_actions(status)}
    \cup (IF status = "cooking" \/ status = "ready"
          THEN {Btn(chat, "admin:assign_courier", o, c) : c \in couriers}
          ELSE {})

\* a courier keyboard that has lost its "delivered" button
get_courier_order_keyboard_pickup_only(chat, o, status) ==
    IF status = "ready" THEN {Btn(chat, "courier:pickup", o, NULL)} ELSE {}

get_courier_order_keyboard(chat, o, status) ==
    IF status = "ready" THEN {Btn(chat, "courier:pickup", o, NULL)}
    ELSE IF status = "delivering" THEN {Btn(chat, "courier:delivered", o, NULL)}
    ELSE {}

get_order_status_keyboard(chat, o, status) ==
    IF status = "pending" THEN {Btn(chat, "cancel_order", o, NULL)} ELSE {}

\* for order in orders[:5]
get_user_orders_keyboard(chat, os) ==
    {Btn(chat, "view_order", o, NULL) : o \in LastN(os, 5)}

----------------------------------------------------------------------------
(* Role gates *)

\* a gate that lets every chat through
is_anybody(user_id) == user_id \in Ids

\* director.py
is_director(user_id) == user_id = DIRECTOR_ID

\* a gate that lets every registered account through
is_any_registered(tbl, user_id) == registered(tbl, user_id)

\* admin.py
is_admin_or_director(tbl, user_id) ==
    \/ user_id = DIRECTOR_ID
    \/ registered(tbl, user_id) /\ tbl[user_id].role \in {"admin", "director"}

\* a delivery gate that knows only the courier role
is_courier_only(tbl, user_id) ==
    registered(tbl, user_id) /\ tbl[user_id].role = "courier"

\* courier.py
is_courier_or_higher(tbl, user_id) ==
    \/ user_id = DIRECTOR_ID
    \/ registered(tbl, user_id) /\ tbl[user_id].role \in {"courier", "admin", "director"}

\* user.py, the reply-keyboard handlers: the check made on the stored row
\* (not user or user['role'] not in ('admin', 'director') refuses)
admin_panel_button(tbl, user_id) ==
    registered(tbl, user_id) /\ tbl[user_id].role \in {"admin", "director"}

\* user.py: not user or user['role'] not in ('courier', 'admin', 'director') refuses
courier_deliveries_button(tbl, user_id) ==
    registered(tbl, user_id) /\ tbl[user_id].role \in {"courier", "admin", "director"}

----------------------------------------------------------------------------
(* The listing and viewing handlers: the buttons they send in a state *)

\* user.py "My orders": a view button for each of the caller's latest orders
my_orders_handler(O, chat) ==
    get_user_orders_keyboard(chat, get_user_orders(O, chat))

\* admin.py: the view buttons of the active-orders list, for order in orders[:5]
admin_orders_callback(U, O, chat) ==
    IF is_admin_or_director(U, chat)
    THEN {Btn(chat, "admin:view_order", o, NULL) : o \in FirstN(get_pending_orders(O), 5)}
    ELSE {}

\* courier.py: a view button for each order assigned to the caller
courier_orders_callback(U, O, chat) ==
    IF is_courier_or_higher(U, chat)
    THEN {Btn(chat, "courier:view", o, NULL) : o \in get_courier_orders(O, chat)}
    ELSE {}

\* user.py: the order's keyboard for the customer
view_order_callback(O, chat, o) ==
    IF o \in 1..Len(O) THEN get_order_status_keyboard(chat, o, O[o].status) ELSE {}

\* admin.py: the order's management keyboard
admin_view_order_callback(U, O, chat, o) ==
    IF is_admin_or_director(U, chat) /\ o \in 1..Len(O)
    THEN get_order_manage_keyboard(chat, o, O[o].status, get_users_by_role(U, "courier"))
    ELSE {}

\* courier.py: the order's keyboard for the courier
courier_view_order_callback(U, O, chat, o) ==
    IF is_courier_or_higher(U, chat) /\ o \in 1..Len(O)
    THEN get_courier_order_keyboard(chat, o, O[o].status)
    ELSE {}

Listed(U, O) ==
    UNION {my_orders_handler(O, chat) \cup admin_orders_callback(U, O, chat)
           \cup courier_orders_callback(U, O, chat) : chat \in Ids}

Viewed(K, U, O) ==
    UNION {IF b[2] = "view_order" THEN view_order_callback(O, b[1], b[3])
           ELSE IF b[2] = "admin:view_order" THEN admin_view_order_callback(U, O, b[1], b[3])
           ELSE IF b[2] = "courier:view" THEN courier_view_order_callback(U, O, b[1], b[3])
           ELSE {} : b \in K}

\* K with the buttons the listings, then the views, send in the state (U, O)
Sent(K, U, O) == (K \cup Listed(U, O)) \cup Viewed(K \cup Listed(U, O), U, O)

----------------------------------------------------------------------------
(* Initial state: init_db() has seeded the director; nothing else exists *)

NoReq ==
    [pc |-> "idle", user_id |-> NULL, items |-> <<>>, address |-> NULL, use_bonus |-> 0,
     balance_bonus |-> 0, bonus_read |-> 0, total |-> 0, max_bonus |-> 0,
     bonus_used |-> 0, status_code |-> 0]

Init ==
    /\ users = [id \in {DIRECTOR_ID} |-> UserRow("director", 0)]
    /\ orders = <<>>
    /\ kb = {}
    /\ fsm = [id \in Ids |-> "none"]
    /\ req = [w \in Workers |-> NoReq]
    /\ menu = InitMenu

----------------------------------------------------------------------------
(* handlers/user.py *)

\* /start: a first contact is registered with the welcome bonus
cmd_start(user_id) ==
    /\ users' = IF registered(users, user_id) THEN users
                ELSE create_user(users, user_id, WELCOME_BONUS)
    /\ kb' = Sent(kb, users', orders)
    /\ UNCHANGED <<orders, fsm, req, menu>>

\* a cancel that does not look at the order's status
cancel_order_any_status(user_id, o) ==
    /\ Btn(user_id, "cancel_order", o, NULL) \in kb
    /\ orders' = update_order_status(orders, o, "cancelled")
    /\ kb' = Sent(kb, users, orders')
    /\ UNCHANGED <<users, fsm, req, menu>>

cancel_order_callback(user_id, o) ==
    /\ Btn(user_id, "cancel_order", o, NULL) \in kb
    /\ orders' = IF o \notin OrderIds THEN orders
                 ELSE IF orders[o].status # "pending" THEN orders
                 ELSE update_order_status(orders, o, "cancelled")
    /\ kb' = Sent(kb, users, orders')
    /\ UNCHANGED <<users, fsm, req, menu>>

----------------------------------------------------------------------------
(* handlers/director.py: the add-admin and add-courier dialogs *)

director_add_admin_callback(user_id) ==
    /\ fsm' = IF is_director(user_id)
              THEN [fsm EXCEPT ![user_id] = "waiting_admin_id"] ELSE fsm
    /\ UNCHANGED <<users, orders, kb, req, menu>>

director_add_courier_callback(user_id) ==
    /\ fsm' = IF is_director(user_id)
              THEN [fsm EXCEPT ![user_id] = "waiting_courier_id"] ELSE fsm
    /\ UNCHANGED <<users, orders, kb, req, menu>>

\* the message a chat in a waiting state sends: "/cancel" or an id
add_role(user_id, text, role) ==
    IF ~is_director(user_id) THEN UNCHANGED <<users, fsm>>
    ELSE IF text = "/cancel" THEN fsm' = [fsm EXCEPT ![user_id] = "none"] /\ UNCHANGED users
    ELSE IF text = DIRECTOR_ID THEN UNCHANGED <<users, fsm>>
    ELSE /\ users' = update_user_role(create_user(users, text, 0), text, role)
         /\ fsm' = [fsm EXCEPT ![user_id] = "none"]

director_admin_id_handler(user_id, text) ==
    /\ fsm[user_id] = "waiting_admin_id"
    /\ add_role(user_id, text, "admin")
    /\ kb' = Sent(kb, users', orders)
    /\ UNCHANGED <<orders, req, menu>>

director_courier_id_handler(user_id, text) ==
    /\ fsm[user_id] = "waiting_courier_id"
    /\ add_role(user_id, text, "courier")
    /\ kb' = Sent(kb, users', orders)
    /\ UNCHANGED <<orders, req, menu>>

\* director:do_remove:<id>: the role of the account becomes user (the button
\* names no order: its order field is 0)
director_do_remove_callback(user_id, target) ==
    /\ Btn(user_id, "director:do_remove", 0, target) \in kb
    /\ users' = IF ~is_director(user_id) THEN users
                ELSE IF target = DIRECTOR_ID THEN users
                ELSE update_user_role(users, target, "user")
    /\ kb' = Sent(kb, users', orders)
    /\ UNCHANGED <<orders, fsm, req, menu>>

----------------------------------------------------------------------------
(* Notifications.  A handler commits its database calls, then sends the     *)
(* notification inside try/except: bot.send_message returns (sent) or       *)
(* raises (TelegramForbiddenError for a user who blocked the bot, a network *)
(* error), the exception is printed, and the handler goes on.               *)

\* a send that comes before the write and is not guarded: a raise ends the
\* handler with nothing written
notified_or_aborted(committed, before, sent) == IF sent THEN committed ELSE before

\* the tables after the handler: what it committed, whether the send raised or not
notified(committed, before, sent) == committed

----------------------------------------------------------------------------
(* handlers/admin.py *)

\* writes the status named by the button, whatever the order's status is now
admin_change_status_callback(user_id, o, new_status) ==
    /\ Btn(user_id, "admin:order_status", o, new_status) \in kb
    /\ IF is_admin_or_director(users, user_id) /\ o \in OrderIds
       THEN /\ orders' \in {notified(update_order_status(orders, o, new_status), orders, sent) :
                                sent \in BOOLEAN}
            /\ kb' = Sent(kb \cup get_order_manage_keyboard(user_id, o, orders'[o].status,
                                        get_users_by_role(users, "courier")),
                          users, orders')
       ELSE UNCHANGED <<orders, kb>>
    /\ UNCHANGED <<users, fsm, req, menu>>

\* what admin_change_status_callback answers to the same request
admin_change_status_callback_reply(user_id, o, new_status) ==
    IF ~is_admin_or_director(users, user_id) THEN "access denied"
    ELSE IF o \notin OrderIds THEN "order not found"
    ELSE "status changed"

\* what admin_assign_courier_callback answers: the result of assign_courier
\* is not read, and a failure while the notification is built is caught
admin_assign_courier_callback_reply(user_id, o, courier_id) ==
    IF ~is_admin_or_director(users, user_id) THEN "access denied"
    ELSE "courier assigned"

\* assign_courier, then the active-orders list again
admin_assign_courier_callback(user_id, o, courier_id) ==
    /\ Btn(user_id, "admin:assign_courier", o, courier_id) \in kb
    /\ IF is_admin_or_director(users, user_id)
       THEN /\ orders' \in {notified(assign_courier(orders, o, courier_id), orders, sent) :
                                sent \in BOOLEAN}
            /\ kb' = Sent(kb \cup admin_orders_callback(users, orders', user_id),
                          users, orders')
       ELSE UNCHANGED <<orders, kb>>
    /\ UNCHANGED <<users, fsm, req, menu>>

----------------------------------------------------------------------------
(* handlers/admin.py and handlers/director.py: the menu.  What a handler   *)
(* answers is given beside it as the reply to the same request.            *)

NoReply == "no reply"

admin_import_menu_callback(user_id) ==
    /\ fsm' = IF is_admin_or_director(users, user_id)
              THEN [fsm EXCEPT ![user_id] = "waiting_menu_json"] ELSE fsm
    /\ UNCHANGED <<users, orders, kb, req, menu>>

admin_import_menu_callback_reply(user_id) ==
    IF ~is_admin_or_director(users, user_id) THEN "access denied" ELSE "send the json"

\* an import that also rewrites the dishes of the orders already placed
admin_import_menu_text_repricing(user_id, text) ==
    /\ fsm[user_id] = "waiting_menu_json"
    /\ IF ~is_admin_or_director(users, user_id) THEN UNCHANGED <<menu, fsm, orders>>
       ELSE IF text = "/cancel"
       THEN fsm' = [fsm EXCEPT ![user_id] = "none"] /\ UNCHANGED <<menu, orders>>
       ELSE /\ menu' = import_menu_json(menu, text)
            /\ fsm' = [fsm EXCEPT ![user_id] = "none"]
            /\ orders' = [o \in DOMAIN orders |->
                  [orders[o] EXCEPT !.items =
                      [k \in DOMAIN orders[o].items |->
                          IF orders[o].items[k].id \in DOMAIN menu'.rows
                          THEN [orders[o].items[k] EXCEPT
                                   !.price = menu'.rows[orders[o].items[k].id].price]
                          ELSE orders[o].items[k]]]]
    /\ UNCHANGED <<users, kb, req>>

\* the text a chat in waiting_menu_json sends
admin_import_menu_text(user_id, text) ==
    /\ fsm[user_id] = "waiting_menu_json"
    /\ IF ~is_admin_or_director(users, user_id) THEN UNCHANGED <<menu, fsm>>
       ELSE IF text = "/cancel" THEN fsm' = [fsm EXCEPT ![user_id] = "none"] /\ UNCHANGED menu
       ELSE /\ menu' = import_menu_json(menu, text)
            /\ fsm' = [fsm EXCEPT ![user_id] = "none"]
    /\ UNCHANGED <<users, orders, kb, req>>

admin_import_menu_text_reply(user_id, text) ==
    IF ~is_admin_or_director(users, user_id) THEN NoReply
    ELSE IF text = "/cancel" THEN "import cancelled"
    ELSE IF json_loads(text).ok THEN "menu imported" ELSE "import error"

\* admin:add_category:<id>: the dialog that adds a dish begins
admin_add_category_callback(user_id) ==
    /\ fsm' = IF is_admin_or_director(users, user_id)
              THEN [fsm EXCEPT ![user_id] = "waiting_item_name"] ELSE fsm
    /\ UNCHANGED <<users, orders, kb, req, menu>>

admin_add_category_callback_reply(user_id) ==
    IF ~is_admin_or_director(users, user_id) THEN "access denied" ELSE "enter the name"

admin_item_name_handler(user_id) ==
    /\ fsm[user_id] = "waiting_item_name"
    /\ fsm' = IF is_admin_or_director(users, user_id)
              THEN [fsm EXCEPT ![user_id] = "waiting_item_description"] ELSE fsm
    /\ UNCHANGED <<users, orders, kb, req, menu>>

admin_item_name_handler_reply(user_id) ==
    IF ~is_admin_or_director(users, user_id) THEN NoReply ELSE "enter the description"

admin_item_description_handler(user_id) ==
    /\ fsm[user_id] = "waiting_item_description"
    /\ fsm' = IF is_admin_or_director(users, user_id)
              THEN [fsm EXCEPT ![user_id] = "waiting_item_price"] ELSE fsm
    /\ UNCHANGED <<users, orders, kb, req, menu>>

admin_item_description_handler_reply(user_id) ==
    IF ~is_admin_or_director(users, user_id) THEN NoReply ELSE "enter the price"

\* int(message.text): ValueError on a text that is not a number
parse_int(text) ==
    CASE text = "180" -> [ok |-> TRUE, value |-> 180]
      [] OTHER -> [ok |-> FALSE, value |-> 0]

admin_item_price_handler(user_id, text) ==
    /\ fsm[user_id] = "waiting_item_price"
    /\ menu.seq < MaxMenuItems
    /\ IF ~is_admin_or_director(users, user_id) \/ ~parse_int(text).ok
       THEN UNCHANGED <<menu, fsm>>
       ELSE /\ menu' = add_menu_item(menu, parse_int(text).value)
            /\ fsm' = [fsm EXCEPT ![user_id] = "none"]
    /\ UNCHANGED <<users, orders, kb, req>>

admin_item_price_handler_reply(user_id, text) ==
    IF ~is_admin_or_director(users, user_id) THEN NoReply
    ELSE IF ~parse_int(text).ok THEN "enter a number" ELSE "dish added"

\* admin:delete_item:<id>
admin_delete_item_confirm_callback(user_id, item_id) ==
    /\ menu' = IF is_admin_or_director(users, user_id)
               THEN delete_menu_item(menu, item_id) ELSE menu
    /\ UNCHANGED <<users, orders, kb, fsm, req>>

admin_delete_item_confirm_callback_reply(user_id, item_id) ==
    IF ~is_admin_or_director(users, user_id) THEN "access denied"
    ELSE IF item_id \in DOMAIN menu.rows THEN "dish deleted" ELSE "delete error"

\* director:toggle_avail:<id>
director_toggle_avail_callback(user_id, item_id) ==
    /\ menu' = IF ~is_director(user_id) THEN menu
               ELSE IF item_id \notin DOMAIN menu.rows THEN menu
               ELSE update_menu_item(menu, item_id,
                                     IF menu.rows[item_id].is_available # 0 THEN 0 ELSE 1)
    /\ UNCHANGED <<users, orders, kb, fsm, req>>

director_toggle_avail_callback_reply(user_id, item_id) ==
    IF ~is_director(user_id) THEN "access denied"
    ELSE IF item_id \notin DOMAIN menu.rows THEN "dish not found" ELSE "dish toggled"

----------------------------------------------------------------------------
(* handlers/courier.py *)

courier_pickup_callback(user_id, o) ==
    /\ Btn(user_id, "courier:pickup", o, NULL) \in kb
    /\ IF is_courier_or_higher(users, user_id) /\ o \in OrderIds
       THEN /\ orders' \in {notified(update_order_status(orders, o, "delivering"), orders, sent) :
                                sent \in BOOLEAN}
            /\ kb' = Sent(kb \cup get_courier_order_keyboard(user_id, o, orders'[o].status),
                          users, orders')
       ELSE UNCHANGED <<orders, kb>>
    /\ UNCHANGED <<users, fsm, req, menu>>

CashbackBounded(U) ==
    \A id \in DOMAIN U : U[id].balance_cashback \in (-MaxCashback)..MaxCashback

\* writes delivered and credits the cashback, whatever the order's status is now
courier_delivered_callback(user_id, o) ==
    /\ Btn(user_id, "courier:delivered", o, NULL) \in kb
    /\ IF is_courier_or_higher(users, user_id) /\ o \in OrderIds
       THEN /\ \E store \in
                    {notified(<<update_order_status(orders, o, "delivered"),
                                add_user_cashback(users, orders[o].user_id,
                                                  CashbackOf(orders[o].total_price))>>,
                              <<orders, users>>, sent) : sent \in BOOLEAN} :
                 orders' = store[1] /\ users' = store[2]
            /\ kb' = Sent(kb \cup courier_orders_callback(users', orders', user_id),
                          users', orders')
       ELSE UNCHANGED <<users, orders, kb>>
    /\ CashbackBounded(users')
    /\ UNCHANGED <<fsm, req, menu>>

----------------------------------------------------------------------------
(* webapp/api.py: POST /api/order served as one unit of work *)

BonusUsed(total, balance_bonus, use_bonus) ==
    IF use_bonus > 0 /\ MaxBonus(total, balance_bonus, use_bonus) > 0
    THEN MaxBonus(total, balance_bonus, use_bonus) ELSE 0

create_new_order(user_id, items, address, use_bonus) ==
    /\ Len(orders) < MaxOrders
    /\ LET u1 == create_user(users, user_id, WELCOME_BONUS)
           total == SumItems(items)
           bonus_used == BonusUsed(total, u1[user_id].balance_bonus, use_bonus)
           u2 == IF bonus_used > 0 THEN use_user_bonus(u1, user_id, bonus_used) ELSE u1
           u3 == update_user_address(u2, user_id, address)
       IN  IF use_bonus > 0 /\ ~BonusAllowed(total)
           THEN users' = u1 /\ UNCHANGED orders
           ELSE /\ users' = u3
                /\ orders' = create_order(orders, user_id, items, total - bonus_used,
                                          address, bonus_used)
    /\ kb' = Sent(kb, users', orders')
    /\ UNCHANGED <<fsm, req, menu>>

----------------------------------------------------------------------------
(* The bot and the storefront, each request one step *)

Next ==
    \/ \E u \in CustomerIds : cmd_start(u)
    \/ \E u \in Ids, o \in OrderIds : cancel_order_callback(u, o)
    \/ \E u \in Ids : director_add_admin_callback(u)
    \/ \E u \in Ids : director_add_courier_callback(u)
    \/ \E u \in Ids, t \in AdminIds \cup {DIRECTOR_ID, "/cancel"} : director_admin_id_handler(u, t)
    \/ \E u \in Ids, t \in CourierIds \cup {DIRECTOR_ID, "/cancel"} : director_courier_id_handler(u, t)
    \/ \E u \in Ids, o \in OrderIds, s \in Statuses : admin_change_status_callback(u, o, s)
    \/ \E u \in Ids, o \in OrderIds, c \in Ids : admin_assign_courier_callback(u, o, c)
    \/ \E u \in Ids, o \in OrderIds : courier_pickup_callback(u, o)
    \/ \E u \in Ids, o \in OrderIds : courier_delivered_callback(u, o)
    \/ \E u \in CustomerIds, items \in Carts, a \in Addresses, b \in UseBonus :
          create_new_order(u, items, a, b)

Spec == Init /\ [][Next]_vars

----------------------------------------------------------------------------
(* The bot with two couriers and one plain order *)

NextStaff ==
    \/ \E u \in CustomerIds : cmd_start(u)
    \/ \E u \in Ids, o \in OrderIds : cancel_order_callback(u, o)
    \/ \E u \in Ids : director_add_courier_callback(u)
    \/ \E u \in Ids, t \in StaffCourierIds \cup {"/cancel"} : director_courier_id_handler(u, t)
    \/ \E u \in Ids, o \in OrderIds, s \in Statuses : admin_change_status_callback(u, o, s)
    \/ \E u \in Ids, o \in OrderIds, c \in Ids : admin_assign_courier_callback(u, o, c)
    \/ \E u \in Ids, o \in OrderIds : courier_pickup_callback(u, o)
    \/ \E u \in Ids, o \in OrderIds : courier_delivered_callback(u, o)
    \/ \E u \in CustomerIds, items \in PlainCarts, a \in Addresses :
          Len(orders) < MaxStaffOrders /\ create_new_order(u, items, a, 0)

SpecStaff == Init /\ [][NextStaff]_vars

----------------------------------------------------------------------------
(* The bot whose clients send any callback data *)

\* every callback query the handlers parse, from every chat
AllButtons ==
    UNION {
        {Btn(chat, prefix, o, NULL) :
            prefix \in {"view_order", "cancel_order", "admin:view_order", "courier:view",
                        "courier:pickup", "courier:delivered"},
            o \in 1..MaxOrders}
        \cup {Btn(chat, "admin:order_status", o, s) : o \in 1..MaxOrders, s \in Statuses}
        \cup {Btn(chat, "admin:assign_courier", o, c) : o \in 1..MaxOrders, c \in Ids}
        \cup {Btn(chat, "director:do_remove", 0, t) : t \in Ids}
        : chat \in Ids}

\* a database whose users table init_db left without the director's row
InitOpenUnseeded ==
    /\ users = [id \in {} |-> UserRow("user", 0)]
    /\ orders = <<>>
    /\ kb = AllButtons
    /\ fsm = [id \in Ids |-> "none"]
    /\ req = [w \in Workers |-> NoReq]
    /\ menu = InitMenu

InitOpen ==
    /\ users = [id \in {DIRECTOR_ID} |-> UserRow("director", 0)]
    /\ orders = <<>>
    /\ kb = AllButtons
    /\ fsm = [id \in Ids |-> "none"]
    /\ req = [w \in Workers |-> NoReq]
    /\ menu = InitMenu

NextOpen ==
    \/ \E u \in Ids \ {DIRECTOR_ID} : cmd_start(u)
    \/ \E u \in Ids, o \in OrderIds : cancel_order_callback(u, o)
    \/ \E u \in Ids : director_add_admin_callback(u)
    \/ \E u \in Ids : director_add_courier_callback(u)
    \/ \E u \in Ids, t \in OpenAdminIds \cup {DIRECTOR_ID, "/cancel"} : director_admin_id_handler(u, t)
    \/ \E u \in Ids, t \in OpenCourierIds \cup {DIRECTOR_ID, "/cancel"} : director_courier_id_handler(u, t)
    \/ \E u \in Ids, t \in Ids : director_do_remove_callback(u, t)
    \/ \E u \in Ids, o \in OrderIds, s \in Statuses : admin_change_status_callback(u, o, s)
    \/ \E u \in Ids, o \in OrderIds, c \in Ids : admin_assign_courier_callback(u, o, c)
    \/ \E u \in Ids, o \in OrderIds : courier_pickup_callback(u, o)
    \/ \E u \in Ids, o \in OrderIds : courier_delivered_callback(u, o)
    \/ \E u \in CustomerIds, items \in PlainCarts, a \in Addresses :
          Len(orders) < MaxOpenOrders /\ create_new_order(u, items, a, 0)

SpecOpen == InitOpen /\ [][NextOpen]_vars

----------------------------------------------------------------------------
(* The bot with two couriers and one order that earns cashback *)

NextNotify ==
    \/ \E u \in CustomerIds : cmd_start(u)
    \/ \E u \in Ids : director_add_courier_callback(u)
    \/ \E u \in Ids, t \in StaffCourierIds \cup {"/cancel"} : director_courier_id_handler(u, t)
    \/ \E u \in Ids, o \in OrderIds, s \in Statuses : admin_change_status_callback(u, o, s)
    \/ \E u \in Ids, o \in OrderIds, c \in Ids : admin_assign_courier_callback(u, o, c)
    \/ \E u \in Ids, o \in OrderIds : courier_pickup_callback(u, o)
    \/ \E u \in Ids, o \in OrderIds : courier_delivered_callback(u, o)
    \/ \E u \in CustomerIds, items \in NotifyCarts, a \in Addresses, b \in NotifyBonus :
          Len(orders) < MaxNotifyOrders /\ create_new_order(u, items, a, b)

SpecNotify == Init /\ [][NextNotify]_vars

----------------------------------------------------------------------------
(* The menu: staff edit it while the storefront sells from it *)

\* the carts a client builds from GET /api/menu: one dish, with the id and
\* the price the menu shows
MenuCarts(m) ==
    { <<[id |-> i, price |-> m.rows[i].price, quantity |-> 1]>> : i \in get_menu_items(m) }

NextMenu ==
    \/ \E u \in CustomerIds : cmd_start(u)
    \/ \E u \in Ids : director_add_admin_callback(u)
    \/ \E u \in Ids, t \in MenuAdminIds \cup {"/cancel"} : director_admin_id_handler(u, t)
    \/ \E u \in Ids, t \in MenuAdminIds : director_do_remove_callback(u, t)
    \/ \E u \in Ids : admin_import_menu_callback(u)
    \/ \E u \in Ids, t \in MenuTexts \cup {"/cancel"} : admin_import_menu_text(u, t)
    \/ \E u \in Ids : admin_add_category_callback(u)
    \/ \E u \in Ids : admin_item_name_handler(u)
    \/ \E u \in Ids : admin_item_description_handler(u)
    \/ \E u \in Ids, t \in PriceTexts : admin_item_price_handler(u, t)
    \/ \E u \in Ids, i \in 1..MaxMenuItems : admin_delete_item_confirm_callback(u, i)
    \/ \E u \in Ids, i \in 1..MaxMenuItems : director_toggle_avail_callback(u, i)
    \/ \E u \in CustomerIds, items \in MenuCarts(menu), a \in Addresses :
          Len(orders) < MaxMenuOrders /\ create_new_order(u, items, a, 0)

SpecMenu == InitOpen /\ [][NextMenu]_vars

----------------------------------------------------------------------------
(* database.py called directly: the order functions on any order table *)

call_create_order(user_id, items, address) ==
    /\ Len(orders) < MaxDbOrders
    /\ orders' = create_order(orders, user_id, items, SumItems(items), address, 0)
    /\ UNCHANGED <<users, kb, fsm, req, menu>>

call_update_order_status(o, status) ==
    /\ orders' = update_order_status(orders, o, status)
    /\ UNCHANGED <<users, kb, fsm, req, menu>>

call_assign_courier(o, courier_id) ==
    /\ orders' = assign_courier(orders, o, courier_id)
    /\ UNCHANGED <<users, kb, fsm, req, menu>>

call_update_payment_status(o, status) ==
    /\ orders' = update_payment_status(orders, o, status)
    /\ UNCHANGED <<users, kb, fsm, req, menu>>

NextDb ==
    \/ \E u \in CustomerIds, items \in PlainCarts, a \in Addresses : call_create_order(u, items, a)
    \/ \E o \in OrderIds, s \in StatusArgs : call_update_order_status(o, s)
    \/ \E o \in OrderIds, c \in CourierIds : call_assign_courier(o, c)
    \/ \E o \in OrderIds, p \in PaymentArgs : call_update_payment_status(o, p)

SpecDb == Init /\ [][NextDb]_vars

----------------------------------------------------------------------------
(* webapp/api.py: POST /api/order served by concurrent workers.  A worker   *)
(* holds the request and the handler's locals; each step is one database   *)
(* call together with the local computation that follows it.               *)

InFlight == {w \in Workers : req[w].pc # "idle"}

\* a request arrives: order: OrderCreate
api_receive(w, user_id, items, address, use_bonus) ==
    /\ req[w].pc = "idle"
    /\ Len(orders) + Cardinality(InFlight) < MaxOrders
    /\ req' = [req EXCEPT ![w] = [NoReq EXCEPT !.pc = "get_user", !.user_id = user_id,
                                   !.items = items, !.address = address,
                                   !.use_bonus = use_bonus]]
    /\ UNCHANGED <<users, orders, kb, fsm, menu>>

\* lines 255-271 up to the call of use_user_bonus, on the row read as user
validated(r, balance_bonus) ==
    LET total == SumItems(r.items)
        max_bonus == MaxBonus(total, balance_bonus, r.use_bonus)
    IN  IF r.use_bonus > 0 /\ ~BonusAllowed(total)
        THEN [r EXCEPT !.pc = "idle", !.status_code = 400, !.total = total,
                       !.balance_bonus = balance_bonus]
        ELSE IF r.use_bonus > 0 /\ max_bonus > 0
        THEN [r EXCEPT !.pc = "use_user_bonus", !.total = total, !.max_bonus = max_bonus,
                       !.balance_bonus = balance_bonus]
        ELSE [r EXCEPT !.pc = "update_user_address", !.total = total,
                       !.balance_bonus = balance_bonus]

\* user = get_user(order.user_id)
api_get_user(w) ==
    /\ req[w].pc = "get_user"
    /\ req' = [req EXCEPT ![w] =
                 IF registered(users, req[w].user_id)
                 THEN validated(req[w], users[req[w].user_id].balance_bonus)
                 ELSE [req[w] EXCEPT !.pc = "create_user"]]
    /\ UNCHANGED <<users, orders, kb, fsm, menu>>

\* create_user(order.user_id, welcome_bonus=500): the upsert
api_create_user(w) ==
    /\ req[w].pc = "create_user"
    /\ users' = create_user(users, req[w].user_id, WELCOME_BONUS)
    /\ req' = [req EXCEPT ![w].pc = "created"]
    /\ UNCHANGED <<orders, kb, fsm, menu>>

\* return get_user(telegram_id) of create_user
api_created(w) ==
    /\ req[w].pc = "created"
    /\ req' = [req EXCEPT ![w] = validated(req[w], users[req[w].user_id].balance_bonus)]
    /\ UNCHANGED <<users, orders, kb, fsm, menu>>

\* a redemption that records the bonus and leaves the total at the full price
redeemed_full_price(r) ==
    [r EXCEPT !.pc = "update_user_address", !.bonus_used = r.max_bonus]

\* bonus_used = max_bonus; total -= bonus_used: the result of use_user_bonus is not read
redeemed(r) ==
    [r EXCEPT !.pc = "update_user_address", !.bonus_used = r.max_bonus,
              !.total = r.total - r.max_bonus]

\* use_user_bonus: its own get_user and the check on it
api_use_user_bonus(w) ==
    /\ req[w].pc = "use_user_bonus"
    /\ LET r == [req[w] EXCEPT !.bonus_read =
                    IF registered(users, req[w].user_id)
                    THEN users[req[w].user_id].balance_bonus ELSE 0]
       IN  req' = [req EXCEPT ![w] =
                     IF use_user_bonus_ok(users, r.user_id, r.max_bonus)
                     THEN [r EXCEPT !.pc = "debit"]
                     ELSE redeemed(r)]
    /\ UNCHANGED <<users, orders, kb, fsm, menu>>

\* use_user_bonus: the UPDATE, in its own connection
api_debit(w) ==
    /\ req[w].pc = "debit"
    /\ users' = debit_bonus(users, req[w].user_id, req[w].max_bonus)
    /\ req' = [req EXCEPT ![w] = redeemed(req[w])]
    /\ UNCHANGED <<orders, kb, fsm, menu>>

\* if order.address: update_user_address(order.user_id, order.address)
api_update_user_address(w) ==
    /\ req[w].pc = "update_user_address"
    /\ users' = update_user_address(users, req[w].user_id, req[w].address)
    /\ req' = [req EXCEPT ![w].pc = "create_order"]
    /\ UNCHANGED <<orders, kb, fsm, menu>>

\* order_id = create_order(...), then the response
api_create_order(w) ==
    /\ req[w].pc = "create_order"
    /\ orders' = create_order(orders, req[w].user_id, req[w].items, req[w].total,
                              req[w].address, req[w].bonus_used)
    /\ req' = [req EXCEPT ![w].pc = "idle", ![w].status_code = 200]
    /\ UNCHANGED <<users, kb, fsm, menu>>

\* a database call raises (sqlite3.OperationalError) or the worker dies: the
\* request ends with no rollback of what its earlier calls committed
api_fail(w) ==
    /\ req[w].pc \notin {"idle"}
    /\ req' = [req EXCEPT ![w].pc = "idle", ![w].status_code = 500]
    /\ UNCHANGED <<users, orders, kb, fsm, menu>>

NextApi ==
    \/ \E w \in Workers, u \in CustomerIds, items \in Carts, a \in Addresses, b \in UseBonus :
          api_receive(w, u, items, a, b)
    \/ \E w \in Workers : api_get_user(w)
    \/ \E w \in Workers : api_create_user(w)
    \/ \E w \in Workers : api_created(w)
    \/ \E w \in Workers : api_use_user_bonus(w)
    \/ \E w \in Workers : api_debit(w)
    \/ \E w \in Workers : api_update_user_address(w)
    \/ \E w \in Workers : api_create_order(w)
    \/ \E w \in Workers : api_fail(w)

SpecApi == Init /\ [][NextApi]_vars

----------------------------------------------------------------------------
(* webapp/api.py: POST /api/order served by one event loop.  The handler   *)
(* awaits nothing, so a request is taken up only when none is in flight.   *)

api_receive_alone(w, user_id, items, address, use_bonus) ==
    /\ InFlight = {}
    /\ api_receive(w, user_id, items, address, use_bonus)

NextSeq ==
    \/ \E w \in Workers, u \in CustomerIds, items \in Carts, a \in Addresses, b \in UseBonus :
          api_receive_alone(w, u, items, a, b)
    \/ \E w \in Workers : api_get_user(w)
    \/ \E w \in Workers : api_create_user(w)
    \/ \E w \in Workers : api_created(w)
    \/ \E w \in Workers : api_use_user_bonus(w)
    \/ \E w \in Workers : api_debit(w)
    \/ \E w \in Workers : api_update_user_address(w)
    \/ \E w \in Workers : api_create_order(w)

SpecSeq == Init /\ [][NextSeq]_vars

----------------------------------------------------------------------------
(* courier.py: two delivered requests served at the same time.  The store  *)
(* holds two orders of one customer, both picked up by courier kim.  A     *)
(* worker holds the request and the handler's locals; each step is one     *)
(* database call, so the requests interleave between any two calls (the    *)
(* dispatcher interleaves them at awaits, a second bot process anywhere).  *)

DeliverReq(pc, user_id, o) ==
    [pc |-> pc, user_id |-> user_id, order_id |-> o, owner |-> NULL, total_price |-> 0,
     status_code |-> 0]

\* the two orders, created, assigned to kim and picked up
DeliveringOrders(items1, items2) ==
    LET O1 == create_order(<<>>, "uma", items1, SumItems(items1), "addr", 0)
        O2 == create_order(O1, "uma", items2, SumItems(items2), "addr", 0)
        O3 == assign_courier(assign_courier(O2, 1, "kim"), 2, "kim")
    IN  update_order_status(update_order_status(O3, 1, "delivering"), 2, "delivering")

InitDeliver ==
    /\ users = [id \in {DIRECTOR_ID, "kim", "uma"} |->
                  IF id = DIRECTOR_ID THEN UserRow("director", 0)
                  ELSE IF id = "kim" THEN UserRow("courier", 0)
                  ELSE UserRow("user", WELCOME_BONUS)]
    /\ \E items1 \in Carts, items2 \in Carts : orders = DeliveringOrders(items1, items2)
    /\ kb = {Btn("kim", "courier:delivered", o, NULL) : o \in OrderIds}
    /\ fsm = [id \in Ids |-> "none"]
    /\ req = [w \in Workers |-> NoReq]
    /\ menu = InitMenu

\* courier:delivered:<id> arrives; a worker serves one request
deliver_receive(w, user_id, o) ==
    /\ req[w].pc = "idle" /\ req[w].status_code = 0
    /\ Btn(user_id, "courier:delivered", o, NULL) \in kb
    /\ req' = [req EXCEPT ![w] = DeliverReq("is_courier_or_higher", user_id, o)]
    /\ UNCHANGED <<users, orders, kb, fsm, menu>>

\* if not is_courier_or_higher(callback.from_user.id): its get_user
deliver_is_courier_or_higher(w) ==
    /\ req[w].pc = "is_courier_or_higher"
    /\ req' = [req EXCEPT ![w] =
                 IF is_courier_or_higher(users, req[w].user_id)
                 THEN [req[w] EXCEPT !.pc = "get_order"]
                 ELSE [req[w] EXCEPT !.pc = "idle", !.status_code = 403]]
    /\ UNCHANGED <<users, orders, kb, fsm, menu>>

\* order = get_order(order_id)
deliver_get_order(w) ==
    /\ req[w].pc = "get_order"
    /\ req' = [req EXCEPT ![w] =
                 IF req[w].order_id \in OrderIds
                 THEN [req[w] EXCEPT !.pc = "update_order_status",
                                     !.owner = orders[req[w].order_id].user_id,
                                     !.total_price = orders[req[w].order_id].total_price]
                 ELSE [req[w] EXCEPT !.pc = "idle", !.status_code = 404]]
    /\ UNCHANGED <<users, orders, kb, fsm, menu>>

\* update_order_status(order_id, 'delivered')
deliver_update_order_status(w) ==
    /\ req[w].pc = "update_order_status"
    /\ orders' = update_order_status(orders, req[w].order_id, "delivered")
    /\ req' = [req EXCEPT ![w].pc = "add_user_cashback"]
    /\ UNCHANGED <<users, kb, fsm, menu>>

\* add_user_cashback(order['user_id'], int(order['total_price'] * 0.05)), then
\* the notification and the courier's list
deliver_add_user_cashback(w) ==
    /\ req[w].pc = "add_user_cashback"
    /\ users' = add_user_cashback(users, req[w].owner, CashbackOf(req[w].total_price))
    /\ req' = [req EXCEPT ![w].pc = "idle", ![w].status_code = 200]
    /\ kb' = Sent(kb \cup courier_orders_callback(users', orders, req[w].user_id),
                  users', orders)
    /\ UNCHANGED <<orders, fsm, menu>>

NextDeliver ==
    \/ \E w \in Workers, u \in Ids, o \in OrderIds : deliver_receive(w, u, o)
    \/ \E w \in Workers : deliver_is_courier_or_higher(w)
    \/ \E w \in Workers : deliver_get_order(w)
    \/ \E w \in Workers : deliver_update_order_status(w)
    \/ \E w \in Workers : deliver_add_user_cashback(w)

SpecDeliver == InitDeliver /\ [][NextDeliver]_vars

----------------------------------------------------------------------------
(* Claims C1-C10: lifecycle and ledger *)

\* the transition table of the lifecycle: (from, to)
TransitionTable ==
    { <<"pending", "confirmed">>, <<"pending", "cancelled">>,
      <<"confirmed", "cooking">>, <<"confirmed", "cancelled">>,
      <<"cooking", "ready">>, <<"ready", "delivering">>,
      <<"delivering", "delivered">> }

Terminal == {"delivered", "cancelled"}

\* floor(total_price * 5 / 100)
FloorCashback(total_price) == (total_price * 5) \div 100

\* the sum of bonus_used over the orders of user_id among the first n rows
RECURSIVE BonusUsedBy(_, _, _)
BonusUsedBy(tbl, user_id, n) ==
    IF n = 0 THEN 0
    ELSE (IF tbl[n].user_id = user_id THEN tbl[n].bonus_used ELSE 0)
         + BonusUsedBy(tbl, user_id, n - 1)

\* C1: every change of an order's status, by any operation, is a pair of the
\* transition table (forward along the lifecycle, or to cancelled from
\* pending or confirmed).
C1_StatusFollowsTable ==
    [][\A o \in OrderIds :
          orders'[o].status # orders[o].status
          => <<orders[o].status, orders'[o].status>> \in TransitionTable]_vars

\* C2: once an order is delivered or cancelled, no operation changes its
\* status again.
C2_TerminalIsFinal ==
    [][\A o \in OrderIds :
          orders[o].status \in Terminal => orders'[o].status = orders[o].status]_vars

\* C3: of a confirm request and a cancel request made on the same pending
\* order only one succeeds: the request handled second finds the status
\* already changed and writes nothing, so an order that the cancel request
\* has cancelled is never confirmed by the confirm request handled after it.
C3_OneWinner ==
    [][\A o \in OrderIds :
          orders[o].status = "cancelled" => orders'[o].status # "confirmed"]_vars

\* the 5% of the orders in S, added up
RECURSIVE CashbackSum(_)
CashbackSum(S) ==
    IF S = {} THEN 0
    ELSE LET o == CHOOSE x \in S : TRUE
         IN  FloorCashback(orders[o].total_price) + CashbackSum(S \ {o})

\* C4: an order is credited at most once: every cashback balance is the sum
\* of the 5% of some of the owner's orders, each counted once.
C4_CreditedOnce ==
    \A u \in DOMAIN users :
        \E S \in SUBSET {o \in OrderIds : orders[o].user_id = u} :
            users[u].balance_cashback = CashbackSum(S)

\* C5: every step that moves an order into delivered credits 5% of its
\* total_price to the owner's cashback balance.
C5_DeliveredCredits ==
    [][\A o \in OrderIds :
          (orders[o].status # "delivered" /\ orders'[o].status = "delivered")
          => users'[orders[o].user_id].balance_cashback
                = users[orders[o].user_id].balance_cashback
                  + FloorCashback(orders[o].total_price)]_vars

\* C6: no account ever has a negative bonus or cashback balance.
C6_BalancesNonNegative ==
    \A u \in DOMAIN users :
        users[u].balance_bonus >= 0 /\ users[u].balance_cashback >= 0

\* C7: when no request is in flight, what has been taken from an account's
\* welcome bonus is exactly the bonus_used recorded on its orders.
C7_DebitMatchesOrders ==
    (\A w \in Workers : req[w].pc = "idle")
    => \A u \in DOMAIN users \ {DIRECTOR_ID} :
          WELCOME_BONUS - users[u].balance_bonus = BonusUsedBy(orders, u, Len(orders))

C10_NoBonusBelowThreshold ==
    \A o \in OrderIds :
        orders[o].bonus_used > 0
        => orders[o].total_price + orders[o].bonus_used >= MIN_BONUS_ORDER

\* C10 witness: a request redeeming bonus on a total below 500 has been
\* refused, and an order with a redeemed bonus is stored.
C10_Witness ==
    /\ \E w \in Workers :
          req[w].status_code = 400 /\ req[w].use_bonus > 0 /\ req[w].total < MIN_BONUS_ORDER
    /\ \E o \in OrderIds : orders[o].bonus_used > 0

----------------------------------------------------------------------------
(* Claims C11-C20: redemption errors, cancellation, who may act *)

\* C11: a request that asks for a bonus on an order total below 500 is not
\* refused: no request with use_bonus > 0 and a total below 500 ends in an
\* error response.
C11_BelowThresholdAccepted ==
    \A w \in Workers :
        (req[w].pc = "idle" /\ req[w].use_bonus > 0
            /\ SumItems(req[w].items) < MIN_BONUS_ORDER)
        => req[w].status_code \notin {400}

\* C12: a request on a total of at least 500 that asks for more bonus than
\* the account holds is not refused: it ends with the order stored, the
\* redeemed amount capped at the balance (and at half the total), and the
\* balance reduced by exactly that amount.
C12_CappedAtBalance ==
    [][\A w \in Workers :
          (/\ req[w].pc # "idle" /\ req'[w].pc = "idle"
           /\ SumItems(req'[w].items) >= MIN_BONUS_ORDER
           /\ req'[w].use_bonus > req'[w].balance_bonus)
          => /\ req'[w].status_code = 200
             /\ Len(orders') = Len(orders) + 1
             /\ LET new == orders'[Len(orders')]
                    cap == Min(SumItems(req'[w].items) \div 2, req'[w].balance_bonus)
                IN  /\ new.user_id = req'[w].user_id
                    /\ new.bonus_used = cap
                    /\ new.total_price = SumItems(req'[w].items) - cap
                    /\ users'[new.user_id].balance_bonus = req'[w].balance_bonus - cap]_vars

\* C12 witness: requests asking for more than the balance have been served,
\* one capped at a balance of 500 and one at a balance of zero.
C12_Witness ==
    /\ Len(orders) = 2
    /\ orders[1].bonus_used = 500 /\ orders[2].bonus_used = 0
    /\ \E w \in Workers :
          /\ req[w].pc = "idle" /\ req[w].status_code = 200
          /\ req[w].use_bonus = 600 /\ req[w].balance_bonus = 0
          /\ SumItems(req[w].items) >= MIN_BONUS_ORDER

\* C13: a step that cancels an order returns the bonus_used and the
\* cashback_used recorded on it to the owner's balances.
C13_CancelRefunds ==
    [][\A o \in OrderIds :
          (orders[o].status # "cancelled" /\ orders'[o].status = "cancelled")
          => LET u == orders[o].user_id
             IN  /\ users'[u].balance_bonus = users[u].balance_bonus + orders[o].bonus_used
                 /\ users'[u].balance_cashback
                       = users[u].balance_cashback + orders[o].cashback_used]_vars

\* C14: a cancel request of a customer on an order that is not pending
\* changes no order.
C14_CancelOnlyPending ==
    [][\A u \in Ids, o \in OrderIds :
          (cancel_order_callback(u, o) /\ orders[o].status # "pending")
          => orders' = orders]_vars

\* C14 witness: the owner holds the cancel button of an order that has moved
\* on from pending.
C14_Witness ==
    \E o \in OrderIds :
        /\ Btn(orders[o].user_id, "cancel_order", o, NULL) \in kb
        /\ orders[o].status \in {"confirmed", "delivering"}

\* the role an actor resolves to: the director identity, else the stored role
\* of a registered account, else user
ResolvedRole(u) ==
    IF u = DIRECTOR_ID THEN "director"
    ELSE IF u \in DOMAIN users THEN users[u].role
    ELSE "user"

IsStaff(u) == ResolvedRole(u) \in {"admin", "director"}

\* C15: a cancel request takes an order to cancelled only when its sender
\* owns the order or is an admin or the director.
C15_CancelByOwnerOrStaff ==
    [][\A u \in Ids, o \in OrderIds :
          (/\ cancel_order_callback(u, o)
           /\ orders[o].status # "cancelled" /\ orders'[o].status = "cancelled")
          => (orders[o].user_id = u \/ IsStaff(u))]_vars

\* C16: a pickup or delivered request sent by an actor who is not the
\* order's assigned courier leaves the order unchanged.
C16_OnlyAssignedCourier ==
    [][\A u \in Ids, o \in OrderIds :
          (/\ courier_pickup_callback(u, o) \/ courier_delivered_callback(u, o)
           /\ orders[o].courier_id # u)
          => orders'[o] = orders[o]]_vars

\* the step is a request sent by u: a bot update from chat u or a storefront
\* request for user u
ActsAs(u) ==
    \/ cmd_start(u)
    \/ \E o \in OrderIds : cancel_order_callback(u, o)
    \/ director_add_admin_callback(u)
    \/ director_add_courier_callback(u)
    \/ \E t \in Ids \cup {"/cancel"} : director_admin_id_handler(u, t)
    \/ \E t \in Ids \cup {"/cancel"} : director_courier_id_handler(u, t)
    \/ \E t \in Ids : director_do_remove_callback(u, t)
    \/ \E o \in OrderIds, s \in Statuses : admin_change_status_callback(u, o, s)
    \/ \E o \in OrderIds, c \in Ids : admin_assign_courier_callback(u, o, c)
    \/ \E o \in OrderIds : courier_pickup_callback(u, o)
    \/ \E o \in OrderIds : courier_delivered_callback(u, o)
    \/ \E items \in Carts \cup PlainCarts, a \in Addresses, b \in UseBonus :
          create_new_order(u, items, a, b)

\* the step makes an order confirmed, cooking or ready, or sets a courier_id
StaffWork ==
    \E o \in OrderIds :
        \/ /\ orders'[o].status \in {"confirmed", "cooking", "ready"}
           /\ orders'[o].status # orders[o].status
        \/ orders'[o].courier_id # orders[o].courier_id

C18_AssignOnlyCookingReady ==
    [][\A u \in Ids, o \in OrderIds, c \in Ids :
          (/\ admin_assign_courier_callback(u, o, c)
           /\ orders[o].status \notin {"cooking", "ready"})
          => /\ orders'[o].courier_id = orders[o].courier_id
             /\ orders'[o].status = orders[o].status]_vars

\* C19: an order whose courier_id is set has status ready, delivering or
\* delivered.
C19_CourierImpliesReady ==
    \A o \in OrderIds :
        orders[o].courier_id # NULL
        => orders[o].status \in {"ready", "delivering", "delivered"}

\* C20: the account with the director identity always has role director,
\* and a role update that targets it with any other role is refused: it
\* leaves the users table as it is.
C20_DirectorStaysDirector ==
    /\ DIRECTOR_ID \in DOMAIN users
    /\ users[DIRECTOR_ID].role = "director"
    /\ \A role \in Roles \ {"director"} :
          update_user_role(users, DIRECTOR_ID, role) = users

\* C20 witness: the director has hired an admin and a courier and is in the
\* add-admin dialog, where the director's own id can be typed; the removal
\* request that names the director can be sent.
C20_Witness ==
    /\ fsm[DIRECTOR_ID] = "waiting_admin_id"
    /\ \E u \in DOMAIN users : users[u].role = "admin"
    /\ \E u \in DOMAIN users : users[u].role = "courier"
    /\ Btn(DIRECTOR_ID, "director:do_remove", 0, DIRECTOR_ID) \in kb

----------------------------------------------------------------------------
(* Claims C21-C30: roles, registration, frames, totals *)

\* C21: in every reachable state exactly one account has the role director:
\* the one init_db seeds; no registration and no role change makes another.
C21_OneDirector ==
    /\ Cardinality({u \in DOMAIN users : users[u].role = "director"}) = 1
    /\ registered(users, DIRECTOR_ID) /\ users[DIRECTOR_ID].role = "director"

\* accounts were registered by /start and hired and dismissed by the director
C21_Witness ==
    /\ \E u \in DOMAIN users : users[u].role = "admin"
    /\ \E u \in DOMAIN users : users[u].role = "courier"
    /\ \E u \in DOMAIN users : users[u].role = "user"

\* the step is a staff-management request sent by u: opening the add-admin or
\* add-courier dialog, typing an id into it, or confirming a role removal
StaffRequest(u) ==
    \/ director_add_admin_callback(u)
    \/ director_add_courier_callback(u)
    \/ \E t \in Ids \cup {"/cancel"} : director_admin_id_handler(u, t)
    \/ \E t \in Ids \cup {"/cancel"} : director_courier_id_handler(u, t)
    \/ \E t \in Ids : director_do_remove_callback(u, t)

\* C22: a staff-management request (add admin, add courier, remove role)
\* sent by an actor who is not the director changes no account's role and
\* creates no account: the users table is as it was.
C22_OnlyDirectorManagesStaff ==
    [][users' # users =>
          \A u \in Ids : ResolvedRole(u) # "director" => ~StaffRequest(u)]_vars

\* C22 witness: lee is an admin, and the courier kim and the customer uma
\* can each send the removal of lee's role.
C22_Witness ==
    /\ "lee" \in DOMAIN users /\ users["lee"].role = "admin"
    /\ "kim" \in DOMAIN users /\ users["kim"].role = "courier"
    /\ "uma" \in DOMAIN users /\ users["uma"].role = "user"
    /\ Btn("kim", "director:do_remove", 0, "lee") \in kb
    /\ Btn("uma", "director:do_remove", 0, "lee") \in kb

\* C23: every menu request the bot takes from an actor who lacks the role it
\* needs is answered with access denied, never with silence.
C23_RefusalIsSurfaced ==
    \A u \in Ids :
        /\ ~IsStaff(u) =>
             /\ admin_import_menu_callback_reply(u) = "access denied"
             /\ admin_add_category_callback_reply(u) = "access denied"
             /\ \A i \in 1..MaxMenuItems :
                    admin_delete_item_confirm_callback_reply(u, i) = "access denied"
             /\ fsm[u] = "waiting_menu_json" =>
                    \A t \in MenuTexts \cup {"/cancel"} :
                        admin_import_menu_text_reply(u, t) = "access denied"
             /\ fsm[u] = "waiting_item_name" =>
                    admin_item_name_handler_reply(u) = "access denied"
             /\ fsm[u] = "waiting_item_description" =>
                    admin_item_description_handler_reply(u) = "access denied"
             /\ fsm[u] = "waiting_item_price" =>
                    \A t \in PriceTexts :
                        admin_item_price_handler_reply(u, t) = "access denied"
        /\ ResolvedRole(u) # "director" =>
             \A i \in 1..MaxMenuItems :
                 director_toggle_avail_callback_reply(u, i) = "access denied"

\* resolve(actor): the role stored for the account, user when there is none
StoredRole(u) == IF u \in DOMAIN users THEN users[u].role ELSE "user"

C25_CreateUserIdempotent ==
    [][\A w \in Workers :
          api_create_user(w) =>
             LET u == req[w].user_id
             IN  IF u \in DOMAIN users THEN users' = users
                 ELSE /\ DOMAIN users' = DOMAIN users \cup {u}
                      /\ users'[u].role = "user"
                      /\ users'[u].balance_bonus = WELCOME_BONUS
                      /\ users'[u].balance_cashback = 0
                      /\ \A x \in DOMAIN users : users'[x] = users[x]]_vars

\* C25 witness: two requests for the same new customer both found no account
\* and both have called create_user, the second on the account of the first
C25_Witness ==
    /\ \A w \in Workers : req[w].pc = "created"
    /\ \A v, w \in Workers : req[v].user_id = req[w].user_id
    /\ \A w \in Workers : users[req[w].user_id].balance_bonus = WELCOME_BONUS

\* C26: whether the notification is sent or raises, a status change, an
\* assignment or a delivery made by an actor who passes the gate ends with
\* the new status, the courier_id and the cashback credit in the store: no
\* such request has an outcome without them.
C26_CommitSurvivesSendFailure ==
    /\ \A u \in Ids, o \in OrderIds, s \in Statuses :
          ~ENABLED (/\ admin_change_status_callback(u, o, s)
                    /\ IsStaff(u)
                    /\ orders'[o].status # s)
    /\ \A u \in Ids, o \in OrderIds, c \in Ids :
          ~ENABLED (/\ admin_assign_courier_callback(u, o, c)
                    /\ IsStaff(u)
                    /\ orders'[o].courier_id # c \/ orders'[o].status # "ready")
    /\ \A u \in Ids, o \in OrderIds :
          ~ENABLED (/\ courier_delivered_callback(u, o)
                    /\ ResolvedRole(u) \in {"courier", "admin", "director"}
                    /\ \/ orders'[o].status # "delivered"
                       \/ users'[orders[o].user_id].balance_cashback
                            # users[orders[o].user_id].balance_cashback
                              + CashbackOf(orders[o].total_price))

\* C26 witness: an order was assigned, then delivered with a cashback credit,
\* each step with a notification that may have raised
C26_Witness ==
    \E o \in OrderIds :
        /\ orders[o].status = "delivered" /\ orders[o].courier_id # NULL
        /\ CashbackOf(orders[o].total_price) > 0
        /\ users[orders[o].user_id].balance_cashback >= CashbackOf(orders[o].total_price)

\* C27: a step that changes the menu (a dish added, its availability
\* updated, a dish deleted, a menu imported) leaves every order as it was:
\* items, total_price and every other field.
C27_MenuLeavesOrders ==
    [][menu' # menu => orders' = orders]_vars

\* C27 witness: an order holds a dish whose menu row has since been deleted,
\* switched off or given another price
C27_Witness ==
    \E o \in OrderIds :
        LET item == orders[o].items[1]
        IN  \/ item.id \notin DOMAIN menu.rows
            \/ /\ item.id \in DOMAIN menu.rows
               /\ \/ menu.rows[item.id].price # item.price
                  \/ menu.rows[item.id].is_available = 0

\* C28: on every order table, update_order_status and assign_courier leave
\* the payment_status of every order as it is, and update_payment_status
\* leaves the status and the courier_id of every order as they are.
C28_PaymentIndependent ==
    \A o \in OrderIds, x \in OrderIds :
        /\ \A s \in StatusArgs :
              update_order_status(orders, o, s)[x].payment_status = orders[x].payment_status
        /\ \A c \in CourierIds :
              assign_courier(orders, o, c)[x].payment_status = orders[x].payment_status
        /\ \A p \in PaymentArgs :
              /\ update_payment_status(orders, o, p)[x].status = orders[x].status
              /\ update_payment_status(orders, o, p)[x].courier_id = orders[x].courier_id

\* C28 witness: an order was paid before it was assigned and picked up, and
\* another was refunded after it was cancelled
C28_Witness ==
    /\ \E o \in OrderIds :
          /\ orders[o].payment_status = "paid"
          /\ orders[o].status = "delivering" /\ orders[o].courier_id # NULL
    /\ \E o \in OrderIds :
          orders[o].payment_status = "refunded" /\ orders[o].status = "cancelled"

\* C29: the order a storefront request creates is stored with total_price
\* equal to the sum of price * quantity over its items minus the stored
\* bonus_used, and the total and bonus_used of the response are the stored ones.
C29_TotalIsSumMinusBonus ==
    [][\A w \in Workers :
          api_create_order(w) =>
             LET new == orders'[Len(orders')]
             IN  /\ Len(orders') = Len(orders) + 1
                 /\ new.total_price = SumItems(new.items) - new.bonus_used
                 /\ req'[w].status_code = 200
                 /\ req'[w].total = new.total_price
                 /\ req'[w].bonus_used = new.bonus_used]_vars

\* C29 witness: an order created with a bonus redeemed, its response given
C29_Witness ==
    \E o \in OrderIds, w \in Workers :
        /\ orders[o].bonus_used > 0
        /\ orders[o].total_price < SumItems(orders[o].items)
        /\ req[w].pc = "idle" /\ req[w].status_code = 200
        /\ req[w].items = orders[o].items /\ req[w].bonus_used = orders[o].bonus_used

\* the cart of the example: two dishes that total 1000
ExampleCart == <<[price |-> 480, quantity |-> 1], [price |-> 520, quantity |-> 1]>>

\* order o is the order of the example: the cart, with 500 of bonus redeemed
ExampleOrder(o) ==
    /\ orders[o].items = ExampleCart
    /\ orders[o].bonus_used = 500 /\ orders[o].total_price = 500

\* C30: a new account holding the welcome bonus of 500 that orders items
\* totalling 1000 and asks for 500 of bonus gets an order with bonus_used 500
\* and total_price 500 and is left with a bonus balance of 0; the director
\* takes the order from pending to confirmed to cooking and assigns courier
\* kim, which makes it ready with courier_id kim; kim picks it up and
\* delivers it, and the delivery adds exactly 25 to the owner's cashback.
C30_Example ==
    [][/\ \A u \in CustomerIds, a \in Addresses :
            (/\ create_new_order(u, ExampleCart, a, 500)
             /\ u \in DOMAIN users => users[u] = UserRow("user", WELCOME_BONUS))
            => /\ Len(orders') = Len(orders) + 1
               /\ orders'[Len(orders')].bonus_used = 500
               /\ orders'[Len(orders')].total_price = 500
               /\ orders'[Len(orders')].status = "pending"
               /\ users'[u].balance_bonus = 0
       /\ \A o \in OrderIds :
            ExampleOrder(o) =>
              /\ (/\ admin_change_status_callback(DIRECTOR_ID, o, "confirmed")
                   /\ orders[o].status = "pending")
                  => orders'[o].status = "confirmed"
              /\ (/\ admin_change_status_callback(DIRECTOR_ID, o, "cooking")
                   /\ orders[o].status = "confirmed")
                  => orders'[o].status = "cooking"
              /\ (/\ admin_assign_courier_callback(DIRECTOR_ID, o, "kim")
                   /\ orders[o].status = "cooking")
                  => orders'[o].status = "ready" /\ orders'[o].courier_id = "kim"
              /\ (/\ courier_pickup_callback("kim", o)
                   /\ orders[o].status = "ready" /\ orders[o].courier_id = "kim")
                  => orders'[o].status = "delivering"
              /\ (/\ courier_delivered_callback("kim", o)
                   /\ orders[o].status = "delivering" /\ orders[o].courier_id = "kim")
                  => /\ orders'[o].status = "delivered"
                     /\ users'[orders[o].user_id].balance_cashback
                          = users[orders[o].user_id].balance_cashback + 25]_vars

\* C30 witness: the example has run to its end
C30_Witness ==
    \E o \in OrderIds :
        /\ ExampleOrder(o)
        /\ orders[o].status = "delivered" /\ orders[o].courier_id = "kim"
        /\ users[orders[o].user_id].balance_bonus = 0
        /\ users[orders[o].user_id].balance_cashback = 25

----------------------------------------------------------------------------
(* The order's way to a terminal status.  Each staff step is a press of a   *)
(* button that the bot's listings and views offer in the current state;     *)
(* the customer and the director's removal of a role are not constrained.   *)

MaxLiveOrders == 1

\* the buttons the listings and the views they open send in the state (U, O)
Offered(U, O) == Sent({}, U, O)

\* director:remove_role, then director:confirm_remove:<id>: the do_remove
\* button of every admin and courier
director_remove_role_callback(U, chat) ==
    IF is_director(chat)
    THEN {Btn(chat, "director:do_remove", 0, t) :
              t \in (get_users_by_role(U, "admin") \cup get_users_by_role(U, "courier"))
                    \ {DIRECTOR_ID}}
    ELSE {}

InitLive ==
    /\ users = [id \in {DIRECTOR_ID} |-> UserRow("director", 0)]
    /\ orders = <<>>
    /\ kb = {Btn(DIRECTOR_ID, "director:do_remove", 0, t) : t \in StaffCourierIds}
    /\ fsm = [id \in Ids |-> "none"]
    /\ req = [w \in Workers |-> NoReq]
    /\ menu = InitMenu

live_create_new_order(u, items, a) ==
    Len(orders) < MaxLiveOrders /\ create_new_order(u, items, a, 0)

live_cancel_order(u, o) ==
    Btn(u, "cancel_order", o, NULL) \in Offered(users, orders) /\ cancel_order_callback(u, o)

live_add_courier(u) ==
    is_director(u) /\ fsm[u] = "none" /\ director_add_courier_callback(u)

live_courier_id(u, t) == director_courier_id_handler(u, t)

live_do_remove(u, t) ==
    /\ Btn(u, "director:do_remove", 0, t) \in director_remove_role_callback(users, u)
    /\ director_do_remove_callback(u, t)

live_change_status(u, o, s) ==
    /\ Btn(u, "admin:order_status", o, s) \in Offered(users, orders)
    /\ admin_change_status_callback(u, o, s)

live_assign_courier(u, o, c) ==
    /\ Btn(u, "admin:assign_courier", o, c) \in Offered(users, orders)
    /\ admin_assign_courier_callback(u, o, c)

live_pickup(u, o) ==
    Btn(u, "courier:pickup", o, NULL) \in Offered(users, orders) /\ courier_pickup_callback(u, o)

live_delivered(u, o) ==
    /\ Btn(u, "courier:delivered", o, NULL) \in Offered(users, orders)
    /\ courier_delivered_callback(u, o)

NextLive ==
    \/ \E u \in CustomerIds, items \in PlainCarts, a \in Addresses : live_create_new_order(u, items, a)
    \/ \E u \in Ids, o \in OrderIds : live_cancel_order(u, o)
    \/ \E u \in Ids : live_add_courier(u)
    \/ \E u \in Ids, t \in StaffCourierIds \cup {"/cancel"} : live_courier_id(u, t)
    \/ \E u \in Ids, t \in StaffCourierIds : live_do_remove(u, t)
    \/ \E u \in Ids, o \in OrderIds, s \in Statuses : live_change_status(u, o, s)
    \/ \E u \in Ids, o \in OrderIds, c \in Ids : live_assign_courier(u, o, c)
    \/ \E u \in Ids, o \in OrderIds : live_pickup(u, o)
    \/ \E u \in Ids, o \in OrderIds : live_delivered(u, o)

\* the dispatcher handles every update it is sent, and staff, the director
\* and the couriers go on pressing what they are offered.  A status button
\* stays offered until the status changes (weak fairness); an assignment, a
\* pickup, a delivery and the typing of a courier's id are offered again
\* and again while roles are given and taken away (strong fairness).
FairLive ==
    /\ WF_vars(\E u \in Ids : live_add_courier(u))
    /\ \A t \in StaffCourierIds : SF_vars(\E u \in Ids : live_courier_id(u, t))
    /\ \A o \in 1..MaxLiveOrders, s \in Statuses :
          WF_vars(\E u \in Ids : live_change_status(u, o, s))
    /\ \A o \in 1..MaxLiveOrders : SF_vars(\E u \in Ids, c \in Ids : live_assign_courier(u, o, c))
    /\ \A o \in 1..MaxLiveOrders : SF_vars(\E u \in Ids : live_pickup(u, o))
    /\ \A o \in 1..MaxLiveOrders : SF_vars(\E u \in Ids : live_delivered(u, o))

SpecLive == InitLive /\ [][NextLive]_vars /\ FairLive

----------------------------------------------------------------------------
(* Claims C31-C40: missing orders, frames, listings, couriers, progress *)

\* C31: a status change or an assignment that a member of staff sends for
\* an order id that does not exist is answered with order not found.
C31_MissingOrderIsNotFound ==
    \A u \in Ids, o \in (1..MaxOrders) \ OrderIds :
        IsStaff(u) =>
          /\ \A s \in Statuses :
                Btn(u, "admin:order_status", o, s) \in kb
                => admin_change_status_callback_reply(u, o, s) = "order not found"
          /\ \A c \in get_users_by_role(users, "courier") :
                Btn(u, "admin:assign_courier", o, c) \in kb
                => admin_assign_courier_callback_reply(u, o, c) = "order not found"

\* C32: no step removes an order, and every order keeps the user_id, items,
\* total_price, bonus_used and delivery_address it was created with.
C32_OrdersKeepCreationFields ==
    [][/\ Len(orders') >= Len(orders)
       /\ \A o \in OrderIds :
            /\ orders'[o].user_id = orders[o].user_id
            /\ orders'[o].items = orders[o].items
            /\ orders'[o].total_price = orders[o].total_price
            /\ orders'[o].bonus_used = orders[o].bonus_used
            /\ orders'[o].delivery_address = orders[o].delivery_address]_vars

\* C32 witness: an order placed with a bonus was assigned a courier and
\* then cancelled
C32_Witness ==
    \E o \in OrderIds :
        /\ orders[o].bonus_used = 500
        /\ orders[o].status = "cancelled" /\ orders[o].courier_id # NULL

\* C33: the list get_pending_orders gives to staff holds every order whose
\* status is neither delivered nor cancelled, orders being delivered included.
C33_StaffListIsAllActive ==
    \A o \in OrderIds :
        orders[o].status \notin {"delivered", "cancelled"} => o \in get_pending_orders(orders)

\* C34: when two requests that overlap in any way have delivered two
\* different orders of one customer, the customer's cashback is what it was
\* (nothing) plus the 5% of both orders.
C34_NoLostAccrual ==
    \A v, w \in Workers :
        (/\ v # w
         /\ req[v].pc = "idle" /\ req[v].status_code = 200
         /\ req[w].pc = "idle" /\ req[w].status_code = 200
         /\ req[v].order_id # req[w].order_id)
        => users["uma"].balance_cashback
             = CashbackOf(orders[req[v].order_id].total_price)
               + CashbackOf(orders[req[w].order_id].total_price)

\* C34 witness: both requests are past their reads and neither has credited
\* yet, each for its own order with a cashback to earn
C34_Witness ==
    /\ \A w \in Workers : req[w].pc = "add_user_cashback"
    /\ \A v, w \in Workers : v # w => req[v].order_id # req[w].order_id
    /\ \A w \in Workers : CashbackOf(req[w].total_price) > 0

\* C35: a step changes an account's cashback balance only by increasing it,
\* and only while it sets one of that account's orders to delivered; every
\* order has cashback_used = 0.
C35_CashbackOnlyGrowsOnDelivery ==
    [][/\ \A u \in DOMAIN users :
            users'[u].balance_cashback # users[u].balance_cashback
            => /\ users'[u].balance_cashback > users[u].balance_cashback
               /\ \E o \in OrderIds :
                     orders[o].user_id = u /\ orders'[o].status = "delivered"
       /\ \A o \in 1..Len(orders') : orders'[o].cashback_used = 0]_vars

\* C36: an assignment that staff make on an existing order leaves it, in
\* the same step, with the courier assigned and status ready; no step of
\* any kind changes an order's courier_id without leaving the order ready,
\* so no reader sees the courier beside the old status; and on a ready
\* order the assignment replaces the courier and the status stays ready.
C36_AssignIsOneStep ==
    [][\A o \in OrderIds :
          /\ orders'[o].courier_id # orders[o].courier_id => orders'[o].status = "ready"
          /\ \A u \in Ids, c \in Ids :
                (admin_assign_courier_callback(u, o, c) /\ IsStaff(u))
                => orders'[o].courier_id = c /\ orders'[o].status = "ready"]_vars

\* C36 witness: a ready order assigned to kim, with the button that assigns
\* it to lee in the director's chat
C36_Witness ==
    \E o \in OrderIds :
        /\ orders[o].status = "ready" /\ orders[o].courier_id = "kim"
        /\ "lee" \in DOMAIN users /\ users["lee"].role = "courier"
        /\ Btn(DIRECTOR_ID, "admin:assign_courier", o, "lee") \in kb

\* C37: in every reachable state an order whose status is delivering or
\* delivered has a courier: its courier_id is not NULL.
C37_DeliveringHasCourier ==
    \A o \in OrderIds :
        orders[o].status \in {"delivering", "delivered"} => orders[o].courier_id # NULL

\* C38: in every reachable state the courier of an order that is ready or
\* delivering is a registered account whose stored role can deliver
\* (courier, admin or director); the director's removing a role never
\* leaves such an order with an account that is a plain user.
C38_ActiveCourierCanDeliver ==
    \A o \in OrderIds :
        (orders[o].status \in {"ready", "delivering"} /\ orders[o].courier_id # NULL)
        => /\ orders[o].courier_id \in DOMAIN users
           /\ users[orders[o].courier_id].role \in {"courier", "admin", "director"}

====
